---- MODULE Spec2Model ----
\* Rate-limiting middleware of src/middleware.ts: a fixed-window counter per
\* client key, kept in a process-wide map, and the response the middleware
\* builds for each request.
EXTENDS Integers, Sequences, FiniteSets, TLC

\* ---------------------------------------------------------------- bounds
\* RATE_LIMIT.windowMs and RATE_LIMIT.maxRequests scaled down from 60 * 1000
\* and 100; the clock counts milliseconds.
WindowMs == 2
MaxRequests == 3
\* Largest value Date.now() returns in the model.
MaxTime == 4
\* Most milliseconds that pass between the Date.now() of isRateLimited and the
\* Date.now() of the 429 response.
MaxLag == 1
\* Longest x-forwarded-for value, in tokens, that the key derivation is given.
MaxHeaderLen == 2

RATE_LIMIT == [windowMs |-> WindowMs, maxRequests |-> MaxRequests, skipSuccessfulRequests |-> FALSE]

\* ---------------------------------------------------------------- values
\* A string is a sequence of tokens; "," is the list separator of
\* x-forwarded-for. An optional value (string | null | undefined) is a record.
Absent == [present |-> FALSE, value |-> <<>>]
Present(s) == [present |-> TRUE, value |-> s]

\* JavaScript truthiness of string | null | undefined: a non-empty string.
Truthy(o) == o.present /\ o.value /= <<>>

\* request.headers.get("x-forwarded-for")
Forwardeds == {Absent, Present(<<"a", ",", " ", "b">>)}
\* request.ip
Ips == {Absent, Present(<<"a">>)}
\* request.nextUrl.pathname
Pathnames == {<<"/", "api", "/", "jobs">>, <<"/", "api">>}
\* Variant: the prefix without its closing slash.
ApiPrefix_NoSlash == <<"/", "api">>

ApiPrefix == <<"/", "api", "/">>

Requests == [pathname : Pathnames, forwarded : Forwardeds, ip : Ips]

\* The header values and connection addresses the key derivation is given:
\* every list of up to MaxHeaderLen tokens, the empty string included.
KeyTokens == {"a", ","}
KeyForwardeds ==
    {Absent} \cup {Present(v) : v \in UNION {[1..n -> KeyTokens] : n \in 0..MaxHeaderLen}}
KeyIps == {Absent, Present(<<>>), Present(<<"a">>)}
KeyRequests == [pathname : {<<"/", "api", "/", "jobs">>}, forwarded : KeyForwardeds, ip : KeyIps]

\* String.prototype.startsWith
StartsWith(s, p) == Len(s) >= Len(p) /\ SubSeq(s, 1, Len(p)) = p

\* s.split(",")[0]: the tokens before the first separator (all of s if none).
RECURSIVE SplitFirst(_)
SplitFirst(s) ==
    IF s = <<>> \/ Head(s) = "," THEN <<>> ELSE <<Head(s)>> \o SplitFirst(Tail(s))

\* Number.prototype.toString and Date.prototype.toISOString are injective on
\* the values the middleware formats; the text keeps the number and its format.
NumToString(n) == <<"dec", n>>
ToISOString(ms) == <<"iso", ms>>

\* Math.ceil(a / b) for a >= 0, b > 0
CeilDiv(a, b) == (a + b - 1) \div b

\* ---------------------------------------------------------------- key
\* Variant: the whole header is the address, the list is not split.
getRateLimitKey_WholeHeader(request) ==
    LET forwarded == request.forwarded
        ip == IF Truthy(forwarded) THEN forwarded.value
              ELSE IF Truthy(request.ip) THEN request.ip.value
              ELSE <<"unknown">>
    IN  <<"rate_limit:">> \o ip

getRateLimitKey(request) ==
    LET forwarded == request.forwarded
        ip == IF Truthy(forwarded) THEN SplitFirst(forwarded.value)
              ELSE IF Truthy(request.ip) THEN request.ip.value
              ELSE <<"unknown">>
    IN  <<"rate_limit:">> \o ip

\* The keys of the clients of Requests, and every key the model derives.
ClientKeys == {getRateLimitKey(r) : r \in Requests}
AllKeys == {getRateLimitKey(r) : r \in Requests \cup KeyRequests}

\* ---------------------------------------------------------------- state
VARIABLES
    rateLimitStore,   \* Map key -> {count, resetTime}: a function on the stored keys
    clock,            \* the value Date.now() returns
    last,             \* the request handled last (limited or not, its key, its clock readings) and its response
    winStart,         \* history: per key, when its current window was opened (-1: never)
    nInWin,           \* history: per key, API requests made in that window
    admitted,         \* history: per key, requests admitted since its record was created
    rejected,         \* history: per key, whether a request was rejected against its current record
    rolled,           \* history: per key, whether its current window was opened on an exhausted record
    rejectedAt,       \* history: per key, the time of its latest request if that was rejected (-1 if not)
    retryOf,          \* history: the time of the rejection that the request handled last retries (-1: none)
    keyReq,           \* SpecKey: two clients' request metadata and how many requests each has made
    pending,          \* SpecSplit: the request that passed the limit check and has not incremented yet, if any
    raced,            \* SpecSplit: per key, a request met the current record while another was pending on it
    admitTimes        \* SpecBurst: one key, and how many of its requests were admitted at each time

\* The variables that only one specification writes.
aux == <<keyReq, pending, raced, admitTimes>>

vars == <<rateLimitStore, clock, last, winStart, nInWin, admitted, rejected, rolled, rejectedAt, retryOf, aux>>

NoHeaders == [h \in {} |-> <<>>]
NoResponse == [status |-> 0, headers |-> NoHeaders, body |-> <<>>]

\* headers.set(name, value)
SetHeader(headers, name, value) ==
    [h \in DOMAIN headers \cup {name} |-> IF h = name THEN value ELSE headers[h]]

\* ---------------------------------------------------------------- limiter
\* Variant: a record expires at now >= resetTime.
isRateLimitedFresh_Inclusive(store, key, now) ==
    key \notin DOMAIN store \/ now >= store[key].resetTime

\* Variant: the window length is added once more in the expiry test.
isRateLimitedFresh_Late(store, key, now) ==
    key \notin DOMAIN store \/ now > store[key].resetTime + RATE_LIMIT.windowMs

\* isRateLimited(key) at Date.now() = now: the value returned and the store after.
isRateLimitedFresh(store, key, now) ==
    key \notin DOMAIN store \/ now > store[key].resetTime

\* Variant: the limit test is `>` instead of `>=`.
isRateLimited_OffByOne(store, key, now) ==
    IF isRateLimitedFresh(store, key, now)
    THEN [limited |-> FALSE,
          store |-> [k \in DOMAIN store \cup {key} |->
                        IF k = key
                        THEN [count |-> 1, resetTime |-> now + RATE_LIMIT.windowMs]
                        ELSE store[k]]]
    ELSE IF store[key].count > RATE_LIMIT.maxRequests
    THEN [limited |-> TRUE, store |-> store]
    ELSE [limited |-> FALSE,
          store |-> [store EXCEPT ![key].count = @ + 1]]

\* Variant: the count is incremented before the limit test, so rejected
\* requests are counted too.
isRateLimited_CountRejected(store, key, now) ==
    IF isRateLimitedFresh(store, key, now)
    THEN [limited |-> FALSE,
          store |-> [k \in DOMAIN store \cup {key} |->
                        IF k = key
                        THEN [count |-> 1, resetTime |-> now + RATE_LIMIT.windowMs]
                        ELSE store[k]]]
    ELSE IF store[key].count >= RATE_LIMIT.maxRequests
    THEN [limited |-> TRUE, store |-> [store EXCEPT ![key].count = @ + 1]]
    ELSE [limited |-> FALSE,
          store |-> [store EXCEPT ![key].count = @ + 1]]

\* Variant: a rejected request pushes the window's end to now + windowMs.
isRateLimited_ExtendOnReject(store, key, now) ==
    IF isRateLimitedFresh(store, key, now)
    THEN [limited |-> FALSE,
          store |-> [k \in DOMAIN store \cup {key} |->
                        IF k = key
                        THEN [count |-> 1, resetTime |-> now + RATE_LIMIT.windowMs]
                        ELSE store[k]]]
    ELSE IF store[key].count >= RATE_LIMIT.maxRequests
    THEN [limited |-> TRUE,
          store |-> [store EXCEPT ![key].resetTime = now + RATE_LIMIT.windowMs]]
    ELSE [limited |-> FALSE,
          store |-> [store EXCEPT ![key].count = @ + 1]]

\* Variant: an expired record is incremented instead of replaced; only an
\* absent key gets a new record.
isRateLimited_NoRollover(store, key, now) ==
    IF key \notin DOMAIN store
    THEN [limited |-> FALSE,
          store |-> [k \in DOMAIN store \cup {key} |->
                        IF k = key
                        THEN [count |-> 1, resetTime |-> now + RATE_LIMIT.windowMs]
                        ELSE store[k]]]
    ELSE IF store[key].count >= RATE_LIMIT.maxRequests
    THEN [limited |-> TRUE, store |-> store]
    ELSE [limited |-> FALSE,
          store |-> [store EXCEPT ![key].count = @ + 1]]

\* Variant: a new window replaces the whole map instead of one entry.
isRateLimited_ClearOnNew(store, key, now) ==
    IF isRateLimitedFresh(store, key, now)
    THEN [limited |-> FALSE,
          store |-> [k \in {key} |-> [count |-> 1, resetTime |-> now + RATE_LIMIT.windowMs]]]
    ELSE IF store[key].count >= RATE_LIMIT.maxRequests
    THEN [limited |-> TRUE, store |-> store]
    ELSE [limited |-> FALSE,
          store |-> [store EXCEPT ![key].count = @ + 1]]

\* Variant: the first request of a key is admitted without storing a record.
isRateLimited_NoInsert(store, key, now) ==
    IF key \notin DOMAIN store
    THEN [limited |-> FALSE, store |-> store]
    ELSE IF now > store[key].resetTime
    THEN [limited |-> FALSE,
          store |-> [store EXCEPT ![key] = [count |-> 1, resetTime |-> now + RATE_LIMIT.windowMs]]]
    ELSE IF store[key].count >= RATE_LIMIT.maxRequests
    THEN [limited |-> TRUE, store |-> store]
    ELSE [limited |-> FALSE,
          store |-> [store EXCEPT ![key].count = @ + 1]]

\* Variant: every admitted request restarts the window (a sliding expiry).
isRateLimited_SlideOnAdmit(store, key, now) ==
    IF isRateLimitedFresh(store, key, now)
    THEN [limited |-> FALSE,
          store |-> [k \in DOMAIN store \cup {key} |->
                        IF k = key
                        THEN [count |-> 1, resetTime |-> now + RATE_LIMIT.windowMs]
                        ELSE store[k]]]
    ELSE IF store[key].count >= RATE_LIMIT.maxRequests
    THEN [limited |-> TRUE, store |-> store]
    ELSE [limited |-> FALSE,
          store |-> [store EXCEPT ![key] = [count |-> @.count + 1,
                                            resetTime |-> now + RATE_LIMIT.windowMs]]]

\* Variant: opening a window sweeps the expired records of the other keys.
isRateLimited_EvictExpired(store, key, now) ==
    IF isRateLimitedFresh(store, key, now)
    THEN [limited |-> FALSE,
          store |-> [k \in {j \in DOMAIN store : now <= store[j].resetTime} \cup {key} |->
                        IF k = key
                        THEN [count |-> 1, resetTime |-> now + RATE_LIMIT.windowMs]
                        ELSE store[k]]]
    ELSE IF store[key].count >= RATE_LIMIT.maxRequests
    THEN [limited |-> TRUE, store |-> store]
    ELSE [limited |-> FALSE,
          store |-> [store EXCEPT ![key].count = @ + 1]]

isRateLimited(store, key, now) ==
    IF isRateLimitedFresh(store, key, now)
    THEN [limited |-> FALSE,
          store |-> [k \in DOMAIN store \cup {key} |->
                        IF k = key
                        THEN [count |-> 1, resetTime |-> now + RATE_LIMIT.windowMs]
                        ELSE store[k]]]
    ELSE IF store[key].count >= RATE_LIMIT.maxRequests
    THEN [limited |-> TRUE, store |-> store]
    ELSE [limited |-> FALSE,
          store |-> [store EXCEPT ![key].count = @ + 1]]

\* ---------------------------------------------------------------- responses
\* Variant: Math.floor instead of Math.ceil.
TooManyRequests_Floor(now2) ==
    [status |-> 429,
     headers |-> [h \in {"Retry-After", "X-RateLimit-Limit", "X-RateLimit-Remaining", "X-RateLimit-Reset"} |->
        CASE h = "Retry-After" -> NumToString(RATE_LIMIT.windowMs \div 1000)
          [] h = "X-RateLimit-Limit" -> NumToString(RATE_LIMIT.maxRequests)
          [] h = "X-RateLimit-Remaining" -> NumToString(0)
          [] h = "X-RateLimit-Reset" -> ToISOString(now2 + RATE_LIMIT.windowMs)],
     body |-> <<[error |-> "Too many requests",
                 message |-> <<"Rate limit exceeded. Maximum ", RATE_LIMIT.maxRequests, " requests per minute.">>,
                 retryAfter |-> RATE_LIMIT.windowMs \div 1000]>>]

\* NextResponse.json(..., {status: 429, headers}) built at Date.now() = now2
TooManyRequests(now2) ==
    [status |-> 429,
     headers |-> [h \in {"Retry-After", "X-RateLimit-Limit", "X-RateLimit-Remaining", "X-RateLimit-Reset"} |->
        CASE h = "Retry-After" -> NumToString(CeilDiv(RATE_LIMIT.windowMs, 1000))
          [] h = "X-RateLimit-Limit" -> NumToString(RATE_LIMIT.maxRequests)
          [] h = "X-RateLimit-Remaining" -> NumToString(0)
          [] h = "X-RateLimit-Reset" -> ToISOString(now2 + RATE_LIMIT.windowMs)],
     body |-> <<[error |-> "Too many requests",
                 message |-> <<"Rate limit exceeded. Maximum ", RATE_LIMIT.maxRequests, " requests per minute.">>,
                 retryAfter |-> CeilDiv(RATE_LIMIT.windowMs, 1000)]>>]

\* Variant: X-RateLimit-Remaining computed from the count before the increment.
RateLimitHeaders_Stale(record) ==
    [status |-> 200,
     headers |-> SetHeader(SetHeader(SetHeader(NoHeaders,
        "X-RateLimit-Limit", NumToString(RATE_LIMIT.maxRequests)),
        "X-RateLimit-Remaining", NumToString(RATE_LIMIT.maxRequests - (record.count - 1))),
        "X-RateLimit-Reset", ToISOString(record.resetTime)),
     body |-> <<>>]

\* NextResponse.next() with the rate-limit headers of an admitted request
RateLimitHeaders(record) ==
    [status |-> 200,
     headers |-> SetHeader(SetHeader(SetHeader(NoHeaders,
        "X-RateLimit-Limit", NumToString(RATE_LIMIT.maxRequests)),
        "X-RateLimit-Remaining", NumToString(RATE_LIMIT.maxRequests - record.count)),
        "X-RateLimit-Reset", ToISOString(record.resetTime)),
     body |-> <<>>]

\* NextResponse.next() with the security headers, and the CORS headers on API routes
SecurityHeaders(request) ==
    LET sec == SetHeader(SetHeader(SetHeader(SetHeader(NoHeaders,
                "X-Content-Type-Options", <<"nosniff">>),
                "X-Frame-Options", <<"DENY">>),
                "X-XSS-Protection", <<"1; mode=block">>),
                "Referrer-Policy", <<"strict-origin-when-cross-origin">>)
        cors == SetHeader(SetHeader(SetHeader(sec,
                "Access-Control-Allow-Origin", <<"*">>),
                "Access-Control-Allow-Methods", <<"GET, POST, PUT, DELETE, OPTIONS">>),
                "Access-Control-Allow-Headers", <<"Content-Type, Authorization">>)
    IN  [status |-> 200,
         headers |-> IF StartsWith(request.pathname, ApiPrefix) THEN cors ELSE sec,
         body |-> <<>>]

\* middleware(request) with isRateLimited reading Date.now() = now and the 429
\* response reading Date.now() = now2: the response and the store after.
middleware(store, request, now, now2) ==
    IF StartsWith(request.pathname, ApiPrefix)
    THEN LET rateLimitKey == getRateLimitKey(request)
             r == isRateLimited(store, rateLimitKey, now)
         IN  IF r.limited
             THEN [response |-> TooManyRequests(now2), store |-> r.store, limited |-> TRUE]
             ELSE IF rateLimitKey \in DOMAIN r.store
             THEN [response |-> RateLimitHeaders(r.store[rateLimitKey]), store |-> r.store, limited |-> FALSE]
             ELSE [response |-> SecurityHeaders(request), store |-> r.store, limited |-> FALSE]
    ELSE [response |-> SecurityHeaders(request), store |-> store, limited |-> FALSE]

\* ---------------------------------------------------------------- actions
InitCore ==
    /\ rateLimitStore = [k \in {} |-> [count |-> 0, resetTime |-> 0]]
    /\ clock = 0
    /\ last = [api |-> FALSE, key |-> <<>>, now |-> 0, now2 |-> 0,
               limited |-> FALSE, response |-> NoResponse]
    /\ winStart = [k \in AllKeys |-> -1]
    /\ nInWin = [k \in AllKeys |-> 0]
    /\ admitted = [k \in AllKeys |-> 0]
    /\ rejected = [k \in AllKeys |-> FALSE]
    /\ rolled = [k \in AllKeys |-> FALSE]
    /\ rejectedAt = [k \in AllKeys |-> -1]
    /\ retryOf = -1

NoAdmitTimes == [key |-> <<>>, at |-> <<>>]

Init ==
    /\ InitCore
    /\ keyReq = <<>>
    /\ pending = <<>>
    /\ raced = [k \in AllKeys |-> FALSE]
    /\ admitTimes = NoAdmitTimes

\* History of one API request for key k at time now, given the stores before
\* and after it and its response.
History(k, now, before, after, response) ==
    LET opens == winStart[k] = -1 \/ now > winStart[k] + RATE_LIMIT.windowMs
        created == k \in DOMAIN after /\
                   (k \notin DOMAIN before \/ after[k].resetTime /= before[k].resetTime)
    IN  /\ winStart' = [winStart EXCEPT ![k] = IF opens THEN now ELSE @]
        /\ nInWin' = [nInWin EXCEPT ![k] =
                        IF opens THEN 1
                        ELSE IF @ <= RATE_LIMIT.maxRequests + 1 THEN @ + 1 ELSE @]
        /\ admitted' = [admitted EXCEPT ![k] =
                        IF created THEN 1
                        ELSE IF response.status /= 429 /\ @ <= RATE_LIMIT.maxRequests THEN @ + 1 ELSE @]
        /\ rejected' = [rejected EXCEPT ![k] =
                        IF created THEN FALSE ELSE IF response.status = 429 THEN TRUE ELSE @]
        /\ rolled' = [rolled EXCEPT ![k] =
                        IF opens
                        THEN k \in DOMAIN before /\ before[k].count >= RATE_LIMIT.maxRequests
                        ELSE @]

\* One request through the middleware.
Handle(request, lag) ==
    LET now == clock
        now2 == clock + lag
        api == StartsWith(request.pathname, ApiPrefix)
        key == IF api THEN getRateLimitKey(request) ELSE <<>>
        m == middleware(rateLimitStore, request, now, now2)
    IN  /\ now2 <= MaxTime
        /\ lag > 0 => m.response.status = 429
        /\ rateLimitStore' = m.store
        /\ clock' = now2
        /\ last' = [api |-> api, key |-> key, now |-> now, now2 |-> now2,
                    limited |-> m.limited, response |-> m.response]
        /\ IF api
           THEN History(key, now, rateLimitStore, m.store, m.response)
           ELSE UNCHANGED <<winStart, nInWin, admitted, rejected, rolled>>

\* History of retries, of the request the step handles: which rejection it
\* retries, and whether it was rejected itself.
TrackRetry ==
    IF last'.api
    THEN /\ retryOf' = rejectedAt[last'.key]
         /\ rejectedAt' = [rejectedAt EXCEPT ![last'.key] =
                             IF last'.response.status = 429 THEN last'.now ELSE -1]
    ELSE /\ retryOf' = -1
         /\ UNCHANGED rejectedAt

Request ==
    \E request \in Requests, lag \in 0..MaxLag :
        Handle(request, lag) /\ TrackRetry /\ UNCHANGED aux

\* A request, with no history of retries kept.
RequestSkew ==
    \E request \in Requests, lag \in 0..MaxLag :
        Handle(request, lag) /\ UNCHANGED <<rejectedAt, retryOf, aux>>

\* A millisecond passes.
Tick ==
    /\ clock < MaxTime
    /\ clock' = clock + 1
    /\ UNCHANGED <<rateLimitStore, last, winStart, nInWin, admitted, rejected, rolled, rejectedAt, retryOf, aux>>

\* The wall clock is set back (Date.now() is not monotonic).
ClockBack ==
    /\ clock > 0
    /\ clock' = clock - 1
    /\ UNCHANGED <<rateLimitStore, last, winStart, nInWin, admitted, rejected, rolled, rejectedAt, retryOf, aux>>

Next == Request \/ Tick

Spec == Init /\ [][Next]_vars

NextSkew == RequestSkew \/ Tick \/ ClockBack

SpecSkew == Init /\ [][NextSkew]_vars

\* An API request of the client with key k.
RequestKey(k) ==
    \E request \in Requests, lag \in 0..MaxLag :
        /\ StartsWith(request.pathname, ApiPrefix)
        /\ getRateLimitKey(request) = k
        /\ Handle(request, lag)
        /\ TrackRetry
        /\ UNCHANGED aux

NextLive == Tick \/ \E k \in ClientKeys : RequestKey(k)

\* API requests only; the clock keeps advancing (up to MaxTime) and every
\* client keeps sending.
SpecLive ==
    /\ Init
    /\ [][NextLive]_vars
    /\ WF_vars(Tick)
    /\ \A k \in ClientKeys : WF_vars(RequestKey(k))

\* ---------------------------------------------------------------- key derivation
\* Two clients, each with its own x-forwarded-for and connection address,
\* send API requests at one instant.
InitKey ==
    /\ InitCore
    /\ keyReq \in [1..2 -> [forwarded : KeyForwardeds, ip : KeyIps, n : {0}]]
    /\ pending = <<>>
    /\ raced = [k \in AllKeys |-> FALSE]
    /\ admitTimes = NoAdmitTimes

HandleKey(i) ==
    /\ keyReq[i].n <= RATE_LIMIT.maxRequests
    /\ Handle([pathname |-> <<"/", "api", "/", "jobs">>,
               forwarded |-> keyReq[i].forwarded, ip |-> keyReq[i].ip], 0)
    /\ keyReq' = [keyReq EXCEPT ![i].n = @ + 1]
    /\ UNCHANGED <<rejectedAt, retryOf, pending, raced, admitTimes>>

NextKey == \E i \in 1..2 : HandleKey(i)

SpecKey == InitKey /\ [][NextKey]_vars

\* ---------------------------------------------------------------- split check and increment
\* The limit check and the increment of isRateLimited as two steps of one
\* request, with other requests handled whole in between: two requests at once.

\* A request is pending on the record that key k holds now.
PendingOn(k) ==
    \E i \in 1..Len(pending) :
        /\ pending[i].key = k
        /\ k \in DOMAIN rateLimitStore
        /\ pending[i].resetTime = rateLimitStore[k].resetTime

\* A whole API request in one step, as in the source.
AtomicRequest ==
    \E request \in Requests :
        /\ StartsWith(request.pathname, ApiPrefix)
        /\ Handle(request, 0)
        /\ raced' = [raced EXCEPT ![last'.key] =
                        IF last'.key \in DOMAIN rateLimitStore
                           /\ rateLimitStore'[last'.key].resetTime = rateLimitStore[last'.key].resetTime
                        THEN @ \/ PendingOn(last'.key)
                        ELSE FALSE]
        /\ UNCHANGED <<rejectedAt, retryOf, keyReq, pending, admitTimes>>

\* Lines 22-36 for a request that finds a live record below the limit: it is
\* about to increment.
CheckLimit ==
    \E request \in Requests :
        LET key == getRateLimitKey(request)
            now == clock
        IN  /\ StartsWith(request.pathname, ApiPrefix)
            /\ pending = <<>>
            /\ ~isRateLimitedFresh(rateLimitStore, key, now)
            /\ ~isRateLimited(rateLimitStore, key, now).limited
            /\ pending' = <<[key |-> key, now |-> now,
                              resetTime |-> rateLimitStore[key].resetTime]>>
            /\ UNCHANGED raced
            /\ UNCHANGED <<rateLimitStore, clock, last, winStart, nInWin, admitted, rejected,
                           rolled, rejectedAt, retryOf, keyReq, admitTimes>>

\* Lines 38-39 and 67-73 for the pending request: the increment of the record it
\* read (which the store may have replaced since), and the admitted response
\* from the record the store holds.
CommitIncrement ==
    /\ pending /= <<>>
    /\  LET p == pending[1]
            held == rateLimitStore[p.key].resetTime = p.resetTime
            after == IF held
                     THEN [rateLimitStore EXCEPT ![p.key].count = @ + 1]
                     ELSE rateLimitStore
            response == RateLimitHeaders(after[p.key])
        IN  /\ rateLimitStore' = after
            /\ pending' = <<>>
            /\ last' = [api |-> TRUE, key |-> p.key, now |-> p.now, now2 |-> p.now,
                        limited |-> FALSE, response |-> response]
            /\ IF held
               THEN History(p.key, p.now, rateLimitStore, after, response)
               ELSE UNCHANGED <<winStart, nInWin, admitted, rejected, rolled>>
            /\ UNCHANGED <<clock, raced, rejectedAt, retryOf, keyReq, admitTimes>>

NextSplit == AtomicRequest \/ CheckLimit \/ CommitIncrement \/ Tick

SpecSplit == Init /\ [][NextSplit]_vars

\* ---------------------------------------------------------------- admissions over time
\* The requests of one key under a clock that never goes back, with the time of
\* every admission kept.
InitBurst ==
    /\ InitCore
    /\ keyReq = <<>>
    /\ pending = <<>>
    /\ raced = [k \in AllKeys |-> FALSE]
    /\ admitTimes \in {[key |-> k, at |-> [t \in 0..MaxTime |-> 0]] : k \in ClientKeys}

BurstRequest ==
    \E request \in Requests, lag \in 0..MaxLag :
        /\ StartsWith(request.pathname, ApiPrefix)
        /\ getRateLimitKey(request) = admitTimes.key
        /\ Handle(request, lag)
        /\ admitTimes' = IF last'.response.status /= 429
                         THEN [admitTimes EXCEPT !.at[last'.now] = @ + 1]
                         ELSE admitTimes
        /\ UNCHANGED <<rejectedAt, retryOf, keyReq, pending, raced>>

NextBurst == BurstRequest \/ Tick

SpecBurst == InitBurst /\ [][NextBurst]_vars

TypeOK ==
    /\ DOMAIN rateLimitStore \subseteq AllKeys
    /\ clock \in 0..MaxTime
    /\ last.response.status \in {0, 200, 429}

\* ---------------------------------------------------------------- properties
W == RATE_LIMIT.windowMs
M == RATE_LIMIT.maxRequests

\* The last request was an API request and got a response.
LastApi == last.api /\ last.response.status /= 0
LastAdmitted == LastApi /\ last.response.status /= 429
LastRejected == LastApi /\ last.response.status = 429

HasHeader(response, h) == h \in DOMAIN response.headers
\* The number a header written by NumToString or ToISOString carries.
HeaderNum(response, h) == response.headers[h][2]
RateLimitHeaderNames == {"X-RateLimit-Limit", "X-RateLimit-Remaining", "X-RateLimit-Reset"}
SecurityHeaderNames == {"X-Content-Type-Options", "X-Frame-Options", "X-XSS-Protection", "Referrer-Policy"}

\* C1: the n-th API request of a key inside the window [t0, t0 + W) opened by
\* a request that found no live record is admitted with remaining = M - n for
\* n <= M, and rejected with remaining = 0 for n > M.
C1_FirstMAdmitted ==
    LastApi =>
        LET k == last.key
            n == nInWin[k]
        IN  (winStart[k] <= last.now /\ last.now < winStart[k] + W) =>
               /\ n <= M => /\ last.response.status = 200
                            /\ HasHeader(last.response, "X-RateLimit-Remaining")
                            /\ last.response.headers["X-RateLimit-Remaining"] = NumToString(M - n)
               /\ n > M => /\ last.response.status = 429
                           /\ last.response.headers["X-RateLimit-Remaining"] = NumToString(0)

\* The (M+1)-th request of a window, made before t0 + W, was rejected.
C1_Witness ==
    /\ LastRejected
    /\ nInWin[last.key] = M + 1
    /\ last.now < winStart[last.key] + W

\* C2: every stored record's count is the number of requests admitted for its
\* key since the record was created, and lies in 1..maxRequests, whatever the
\* clock does.
C2_CountIsAdmitted ==
    \A k \in DOMAIN rateLimitStore :
        /\ rateLimitStore[k].count = admitted[k]
        /\ 1 <= rateLimitStore[k].count
        /\ rateLimitStore[k].count <= M

\* A key at its limit whose last request was rejected after the clock was set
\* back behind the time its window was opened.
C2_Witness ==
    /\ LastRejected
    /\ rateLimitStore[last.key].count = M
    /\ admitted[last.key] = M
    /\ last.now < winStart[last.key]

\* C3: once a request of a key was rejected against its record, every request
\* of the key made while now <= record.resetTime is rejected, and a rejected
\* request leaves the whole store as it was.
C3_RejectionIdempotent ==
    [][ /\ \A k \in AllKeys :
              (/\ rejected[k]
               /\ last' /= last /\ last'.api /\ last'.key = k
               /\ last'.now <= rateLimitStore[k].resetTime)
              => (last'.response.status = 429 /\ rateLimitStore' = rateLimitStore)
        /\ (last' /= last /\ last'.response.status = 429) => rateLimitStore' = rateLimitStore
      ]_vars

\* A key was rejected at least twice in one window, the last time at the
\* window's final instant now = resetTime.
C3_Witness ==
    /\ LastRejected
    /\ nInWin[last.key] = M + 2
    /\ last.now = rateLimitStore[last.key].resetTime

\* C4: a request made after t0 + W for a key whose quota was exhausted in the
\* window opened at t0 is admitted, replaces the record by
\* {count: 1, resetTime: now + W}, and reports remaining = M - 1 and the new
\* resetTime.
C4_Rollover ==
    LastApi =>
        LET k == last.key
        IN  (rolled[k] /\ nInWin[k] = 1) =>
               /\ last.response.status = 200
               /\ k \in DOMAIN rateLimitStore
               /\ rateLimitStore[k] = [count |-> 1, resetTime |-> last.now + W]
               /\ RateLimitHeaderNames \subseteq DOMAIN last.response.headers
               /\ last.response.headers["X-RateLimit-Remaining"] = NumToString(M - 1)
               /\ last.response.headers["X-RateLimit-Reset"] = ToISOString(last.now + W)

\* The request that rolled an exhausted window over.
C4_Witness ==
    /\ LastAdmitted
    /\ rolled[last.key]
    /\ nInWin[last.key] = 1
    /\ last.now > W

\* C5: a request leaves the record of every key other than its own as it was,
\* and the response to any API request is the one it would get from a store
\* holding its own key's record alone.
C5_Restrict(store, key) == [k \in DOMAIN store \cap {key} |-> store[k]]

C5_Frame ==
    \A k \in DOMAIN rateLimitStore :
        (last' /= last /\ last'.key /= k) =>
            (k \in DOMAIN rateLimitStore' /\ rateLimitStore'[k] = rateLimitStore[k])

C5_SameDecision ==
    \A r \in Requests : \A lag \in 0..MaxLag :
        StartsWith(r.pathname, ApiPrefix) =>
            LET key == getRateLimitKey(r)
                full == middleware(rateLimitStore, r, clock, clock + lag)
                alone == middleware(C5_Restrict(rateLimitStore, key), r, clock, clock + lag)
            IN  /\ full.response = alone.response
                /\ full.limited = alone.limited
                /\ \A k \in DOMAIN rateLimitStore \ {key} :
                      k \in DOMAIN full.store /\ full.store[k] = rateLimitStore[k]

C5_KeyIndependence == []C5_SameDecision /\ [][C5_Frame]_vars

\* A request was admitted for one key while another key's quota is exhausted
\* and its window still open.
C5_Witness ==
    /\ LastAdmitted
    /\ \E a \in DOMAIN rateLimitStore :
          /\ a /= last.key
          /\ rejected[a]
          /\ rateLimitStore[a].count = M
          /\ last.now <= rateLimitStore[a].resetTime

\* C6: an API request is either admitted or rejected; admitted, it reports
\* remaining in 0..M-1, equal to M minus the key's stored count; rejected, it
\* reports remaining = 0.
C6_Remaining ==
    LastApi =>
        /\ last.response.status \in {200, 429}
        /\ (last.response.status = 429) = last.limited
        /\ HasHeader(last.response, "X-RateLimit-Remaining")
        /\ LastAdmitted =>
              /\ last.key \in DOMAIN rateLimitStore
              /\ HeaderNum(last.response, "X-RateLimit-Remaining") \in 0..(M - 1)
              /\ last.response.headers["X-RateLimit-Remaining"]
                    = NumToString(M - rateLimitStore[last.key].count)
        /\ LastRejected =>
              last.response.headers["X-RateLimit-Remaining"] = NumToString(0)

\* The request that used up the quota: admitted with remaining = 0.
C6_Witness ==
    /\ LastAdmitted
    /\ last.response.headers["X-RateLimit-Remaining"] = NumToString(0)
    /\ rateLimitStore[last.key].count = M

\* C7 (as claimed): the reset time reported with every decision is the
\* resetTime of the key's stored record.
C7_ResetIsRecordReset ==
    LastApi =>
        /\ last.key \in DOMAIN rateLimitStore
        /\ HasHeader(last.response, "X-RateLimit-Reset")
        /\ last.response.headers["X-RateLimit-Reset"]
              = ToISOString(rateLimitStore[last.key].resetTime)

\* C8: a rejected request gets status 429, Retry-After and body retryAfter of
\* ceil(windowMs / 1000), X-RateLimit-Limit = maxRequests,
\* X-RateLimit-Remaining = 0 and X-RateLimit-Reset = the time the response is
\* built + windowMs, whatever time is left in the window.
C8_RejectResponse ==
    last.limited =>
        /\ last.response.status = 429
        /\ DOMAIN last.response.headers = RateLimitHeaderNames \cup {"Retry-After"}
        /\ last.response.headers["Retry-After"] = NumToString(CeilDiv(W, 1000))
        /\ Len(last.response.body) = 1
        /\ last.response.body[1].retryAfter = CeilDiv(W, 1000)
        /\ last.response.headers["X-RateLimit-Limit"] = NumToString(M)
        /\ last.response.headers["X-RateLimit-Remaining"] = NumToString(0)
        /\ last.response.headers["X-RateLimit-Reset"] = ToISOString(last.now2 + W)
        /\ last.now <= last.now2

\* A request rejected when less than windowMs was left in its window.
C8_Witness ==
    /\ LastRejected
    /\ last.now > winStart[last.key]
    /\ rateLimitStore[last.key].resetTime - last.now < W

\* C9: every response to an API request carries the three X-RateLimit headers;
\* it has status 429 and Retry-After exactly when the request was rejected; an
\* admitted request's key is in the store.
C9_RateLimitHeaders ==
    LastApi =>
        /\ RateLimitHeaderNames \subseteq DOMAIN last.response.headers
        /\ (last.response.status = 429) = last.limited
        /\ HasHeader(last.response, "Retry-After") = last.limited
        /\ ~last.limited => last.key \in DOMAIN rateLimitStore

\* The first request of a key: admitted, with its record just created.
C9_Witness ==
    /\ LastAdmitted
    /\ nInWin[last.key] = 1
    /\ ~rolled[last.key]
    /\ RateLimitHeaderNames \subseteq DOMAIN last.response.headers

\* C10: a request whose path does not start with /api/ is not rejected, leaves
\* the store as it is, and gets the four security headers.
C10_NonApi(r) ==
    LET m == middleware(rateLimitStore, r, clock, clock)
    IN  /\ m.store = rateLimitStore
        /\ ~m.limited
        /\ m.response.status = 200
        /\ SecurityHeaderNames \subseteq DOMAIN m.response.headers
        /\ m.response.headers["X-Content-Type-Options"] = <<"nosniff">>
        /\ m.response.headers["X-Frame-Options"] = <<"DENY">>
        /\ m.response.headers["X-XSS-Protection"] = <<"1; mode=block">>
        /\ m.response.headers["Referrer-Policy"] = <<"strict-origin-when-cross-origin">>

C10_NonApiPassThrough ==
    /\ \A r \in Requests : ~StartsWith(r.pathname, <<"/", "api", "/">>) => C10_NonApi(r)
    /\ (last.response.status /= 0 /\ ~last.api) =>
          /\ last.response.status = 200
          /\ SecurityHeaderNames \subseteq DOMAIN last.response.headers
          /\ ~last.limited

\* A non-API request passed while the API quota of every client key was
\* exhausted and its window still open.
C10_Witness ==
    /\ last.response.status = 200
    /\ ~last.api
    /\ \A k \in ClientKeys :
          /\ rejected[k]
          /\ rateLimitStore[k].count = M
          /\ last.now <= rateLimitStore[k].resetTime

CorsHeaderNames == {"Access-Control-Allow-Origin", "Access-Control-Allow-Methods", "Access-Control-Allow-Headers"}

\* C11 (as claimed): every admitted response to an API request carries the
\* security headers and the CORS headers besides the rate-limit headers.
C11_AdmittedHasSecurityAndCors ==
    LastAdmitted =>
        /\ RateLimitHeaderNames \subseteq DOMAIN last.response.headers
        /\ SecurityHeaderNames \subseteq DOMAIN last.response.headers
        /\ CorsHeaderNames \subseteq DOMAIN last.response.headers

\* A step that handles an API request of key k.
RequestStep(k) == last' /= last /\ last'.api /\ last'.key = k

\* C14: a stored record is live for every request with now <= resetTime: at
\* now = resetTime an exhausted key is rejected and a non-exhausted key
\* increments the old record; a new window opens only when now > resetTime.
C14_StrictExpiry ==
    [][ \A k \in DOMAIN rateLimitStore :
            RequestStep(k) =>
                LET rec == rateLimitStore[k]
                    now == last'.now
                IN  /\ (now <= rec.resetTime /\ rec.count >= M) =>
                          (last'.response.status = 429 /\ rateLimitStore'[k] = rec)
                    /\ (now <= rec.resetTime /\ rec.count < M) =>
                          /\ last'.response.status = 200
                          /\ rateLimitStore'[k] = [count |-> rec.count + 1, resetTime |-> rec.resetTime]
                    /\ (rateLimitStore'[k].resetTime /= rec.resetTime) => now > rec.resetTime
                    /\ now > rec.resetTime =>
                          rateLimitStore'[k] = [count |-> 1, resetTime |-> now + W]
      ]_vars

\* A request made at exactly now = resetTime was counted on the old record.
C14_Witness ==
    /\ LastAdmitted
    /\ last.now = rateLimitStore[last.key].resetTime
    /\ rateLimitStore[last.key].count >= 2
    /\ last.now = winStart[last.key] + W

\* C15: a key's resetTime changes only in a step that creates a fresh record,
\* and then is that request's now + windowMs; in every other step resetTime is
\* unchanged and count does not decrease; count becomes 1 exactly in the steps
\* that open a window, taken only when the key had no record or now > resetTime.
C15_Opens(k) ==
    k \notin DOMAIN rateLimitStore \/ rateLimitStore'[k].resetTime /= rateLimitStore[k].resetTime

C15_ResetOnlyOnCreate ==
    [][ \A k \in DOMAIN rateLimitStore' :
            /\ C15_Opens(k) =>
                  /\ RequestStep(k)
                  /\ rateLimitStore'[k] = [count |-> 1, resetTime |-> last'.now + W]
                  /\ (k \in DOMAIN rateLimitStore => last'.now > rateLimitStore[k].resetTime)
            /\ ~C15_Opens(k) =>
                  /\ rateLimitStore'[k].count >= rateLimitStore[k].count
                  /\ (rateLimitStore'[k].count = 1 => rateLimitStore[k].count = 1)
      ]_vars

\* In a window opened by a rollover the count has grown past 1 at a later
\* instant, the resetTime still that of the window's first request.
C15_Witness ==
    /\ LastAdmitted
    /\ rolled[last.key]
    /\ rateLimitStore[last.key].count = 2
    /\ last.now > winStart[last.key]
    /\ rateLimitStore[last.key].resetTime = winStart[last.key] + W

\* C19: no step removes a key from the store; the stored keys are the keys
\* that have made an API request; a record, expired or not, stays as it is
\* until a request of its own key.
C19_Frame ==
    \A k \in DOMAIN rateLimitStore :
        /\ k \in DOMAIN rateLimitStore'
        /\ rateLimitStore'[k] /= rateLimitStore[k] => RequestStep(k)

C19_Keys == DOMAIN rateLimitStore = {k \in AllKeys : winStart[k] /= -1}

C19_NeverRemoved == []C19_Keys /\ [][C19_Frame]_vars

\* An expired record is still stored while another key opens a window.
C19_Witness ==
    /\ LastAdmitted
    /\ nInWin[last.key] = 1
    /\ \E k \in DOMAIN rateLimitStore :
          /\ k /= last.key
          /\ rateLimitStore[k].resetTime < last.now

\* C17 (as claimed): when the latest request of a key was rejected at time t,
\* its next request, made at t' >= t + windowMs, is admitted.
C17_RetryAfterWindow ==
    (LastApi /\ retryOf /= -1 /\ last.now >= retryOf + W)
    => last.response.status = 200

\* C17 (amended): when the latest request of a key was rejected at time t, its
\* next request, made at t' > t + windowMs, is admitted.
C17_RetryAfterWindowStrict ==
    (LastApi /\ retryOf /= -1 /\ last.now > retryOf + W)
    => /\ last.response.status = 200
       /\ ~last.limited
       /\ rateLimitStore[last.key] = [count |-> 1, resetTime |-> last.now + W]

\* A request made more than windowMs after the rejection it retries.
C17_Witness ==
    /\ LastAdmitted
    /\ retryOf /= -1
    /\ last.now > retryOf + W

\* C16: a rejected request changes neither resetTime nor count, and a key
\* rejected in a window that ends before MaxTime is admitted again, when the
\* clock keeps advancing and its client keeps sending.
C16_RejectKeepsRecord ==
    \A k \in DOMAIN rateLimitStore :
        (RequestStep(k) /\ last'.response.status = 429) => rateLimitStore'[k] = rateLimitStore[k]

C16_EventuallyAdmitted ==
    /\ [][C16_RejectKeepsRecord]_vars
    /\ \A k \in ClientKeys :
          (rejected[k] /\ rateLimitStore[k].resetTime < MaxTime)
              ~> (LastAdmitted /\ last.key = k)

\* A key admitted again no later than windowMs after one of its rejections:
\* the rejection did not restart the window.
C16_Witness ==
    /\ LastAdmitted
    /\ rolled[last.key]
    /\ nInWin[last.key] = 1
    /\ retryOf /= -1
    /\ last.now <= retryOf + W

\* e is the first comma-separated entry of the token list v.
IsFirstEntry(e, v) ==
    /\ Len(e) <= Len(v)
    /\ \A j \in 1..Len(e) : e[j] = v[j] /\ e[j] /= ","
    /\ (Len(e) = Len(v) \/ v[Len(e) + 1] = ",")

FirstEntry(v) == CHOOSE e \in {SubSeq(v, 1, n) : n \in 0..Len(v)} : IsFirstEntry(e, v)

\* The key as C12 states it: header present, else address present, else "unknown".
C12_ClaimedKey(r) ==
    <<"rate_limit:">> \o
        (IF r.forwarded.present THEN FirstEntry(r.forwarded.value)
         ELSE IF r.ip.present THEN r.ip.value
         ELSE <<"unknown">>)

\* The key as amended: an empty header or address counts as absent.
C12_AmendedKey(r) ==
    <<"rate_limit:">> \o
        (IF r.forwarded.present /\ r.forwarded.value /= <<>> THEN FirstEntry(r.forwarded.value)
         ELSE IF r.ip.present /\ r.ip.value /= <<>> THEN r.ip.value
         ELSE <<"unknown">>)

C12_Handled == {i \in 1..2 : keyReq[i].n > 0}
C12_Min(a, b) == IF a <= b THEN a ELSE b
\* The requests made so far by the clients whose key, derived by Key, is k.
C12_Total(Key(_), k) ==
    (IF Key(keyReq[1]) = k THEN keyReq[1].n ELSE 0) + (IF Key(keyReq[2]) = k THEN keyReq[2].n ELSE 0)

\* The stored records are those of the keys Key derives for the clients that
\* have sent a request, each counting the requests of all clients with its key.
C12_StoreFollows(Key(_)) ==
    /\ DOMAIN rateLimitStore = {Key(keyReq[i]) : i \in C12_Handled}
    /\ \A k \in DOMAIN rateLimitStore :
          /\ rateLimitStore[k].count = C12_Min(C12_Total(Key, k), M)
          /\ rejected[k] = (C12_Total(Key, k) > M)
    /\ LastApi => last.key \in {Key(keyReq[i]) : i \in C12_Handled}

\* C12 (as claimed): a present x-forwarded-for header gives the prefix plus
\* its first entry, an absent one the prefix plus the connection address, both
\* absent the prefix plus "unknown"; requests with one key share one record.
C12_KeyAsClaimed == C12_StoreFollows(C12_ClaimedKey)

\* C12 (amended): the same with "present" read as "present and not empty".
C12_KeyDerivation == C12_StoreFollows(C12_AmendedKey)

\* A client whose header is a list with a remainder and a client whose header
\* is empty share one record that has counted the requests of both.
C12_Witness ==
    /\ keyReq[1].n > 0 /\ keyReq[2].n > 0
    /\ keyReq[1].forwarded.present /\ Len(keyReq[1].forwarded.value) >= 2
    /\ keyReq[2].forwarded = Present(<<>>)
    /\ Cardinality(DOMAIN rateLimitStore) = 1
    /\ \A k \in DOMAIN rateLimitStore : rateLimitStore[k].count = keyReq[1].n + keyReq[2].n

\* C13: with the limit check and the increment as separate steps, a record
\* counts and admits more than maxRequests requests only if requests for its
\* key interleaved on it; requests that each run as one step, for any keys,
\* never exceed the limit.
C13_OverLimitOnlyIfRaced ==
    \A k \in DOMAIN rateLimitStore :
        ~raced[k] => /\ rateLimitStore[k].count <= M
                     /\ admitted[k] <= M

\* Two interleaved requests for one key were both admitted past the limit.
C13_Witness ==
    \E k \in DOMAIN rateLimitStore :
        /\ raced[k]
        /\ rateLimitStore[k].count > M
        /\ admitted[k] > M
        /\ LastAdmitted /\ last.key = k

\* The number of requests admitted for the key at the times s .. s + windowMs.
RECURSIVE C18_SumFrom(_, _)
C18_SumFrom(a, b) == IF a > b THEN 0 ELSE admitTimes.at[a] + C18_SumFrom(a + 1, b)
C18_AdmittedIn(s) == C18_SumFrom(s, IF s + W <= MaxTime THEN s + W ELSE MaxTime)

\* The densest burst across a window boundary that opens at time t: the record
\* before, opened windowMs + 1 earlier by one request, took its other
\* maxRequests - 1 requests at its last instant t - 1, and the record opened at
\* t took maxRequests requests at t.
C18_Burst(t) ==
    /\ t - 1 - W >= 0
    /\ admitTimes.at[t - 1 - W] = 1
    /\ admitTimes.at[t - 1] = M - 1
    /\ admitTimes.at[t] = M
    /\ rateLimitStore[admitTimes.key].count = M

\* C18 (as claimed): 2 * maxRequests admissions in an interval of length
\* windowMs is reached, by the densest burst across a window boundary.
C18_BoundReached ==
    \A t \in 0..MaxTime :
        C18_Burst(t) => \E s \in 0..MaxTime : C18_AdmittedIn(s) = 2 * M

\* C18 (amended): every interval of length windowMs holds at most
\* 2 * maxRequests - 1 admissions for the key, and no record counts more than
\* maxRequests.
C18_AtMostTwoWindows ==
    /\ \A s \in 0..MaxTime : C18_AdmittedIn(s) <= 2 * M - 1
    /\ \A k \in DOMAIN rateLimitStore : rateLimitStore[k].count <= M

\* An interval of length windowMs that holds 2 * maxRequests - 1 admissions,
\* from two records.
C18_Witness ==
    /\ \E s \in 0..MaxTime : C18_AdmittedIn(s) = 2 * M - 1
    /\ rolled[admitTimes.key]
    /\ rateLimitStore[admitTimes.key].count = M

====
